---- MODULE Spec2Model ----
(***************************************************************************)
(* A model of the jianpu ("RCP") score player: the note grammar and the    *)
(* tone synthesizer of player.py, the batch conversion of save.py and the  *)
(* playback thread of ui.py.                                               *)
(*                                                                         *)
(* Text is a sequence of one-character strings.  Real numbers are exact    *)
(* rationals [num, den] with den > 0.  A frequency base * 2^(s/12) is the  *)
(* pair [base, semitones].  A sample is 0 (exactly zero) or 1 (not zero).  *)
(***************************************************************************)
EXTENDS Integers, Sequences, FiniteSets, TLC

\* ------------------------------------------------------------------ bounds

\* Longest note string enumerated by the parser specification.
MaxTokLen == 4

\* Most note strings in a score file handed to rcp_to_wav.
MaxSaveNotes == 3

\* Most playback threads play_music starts in one run of the UI.
MaxThreads == 2

\* The sample rate of the UI's player, in place of the default 44100, so
\* that a note is a handful of samples.
UiSampleRate == 40

\* ------------------------------------------------------------------ text

Digits == {"0", "1", "2", "3", "4", "5", "6", "7", "8", "9"}

\* The characters note strings are built from: the degrees 0..7, a digit
\* that is no degree, the octave markers, the separator and its alias.
Alphabet == {"0", "1", "2", "3", "4", "5", "6", "7", "8", "+", "-", ".", ":"}

Rat(n, d) == [num |-> n, den |-> d]

RECURSIVE GCD(_, _)
GCD(a, b) == IF b = 0 THEN a ELSE GCD(b, a % b)

Abs(n) == IF n < 0 THEN -n ELSE n

\* The rational in lowest terms.
Norm(x) ==
    LET g == GCD(Abs(x.num), x.den)
    IN  IF g = 0 THEN x ELSE Rat(x.num \div g, x.den \div g)

\* x * y, reduced before the products are taken so that they stay small.
RatMul(x, y) ==
    LET a == Norm(Rat(x.num, y.den))
        b == Norm(Rat(y.num, x.den))
    IN  Rat(a.num * b.num, a.den * b.den)

\* (k * r) \div b and (k * r) % b for 0 <= r < b, by k additions, so that
\* no product leaves the machine integers.
RECURSIVE TimesDivMod(_, _, _, _, _)
TimesDivMod(r, b, k, q, acc) ==
    IF k = 0 THEN [q |-> q, r |-> acc]
    ELSE IF acc >= b - r THEN TimesDivMod(r, b, k - 1, q + 1, acc - (b - r))
    ELSE TimesDivMod(r, b, k - 1, q, acc + r)

\* The integer below k * n / d, for k, n >= 0.
FloorTimes(k, n, d) == k * (n \div d) + TimesDivMod(n % d, d, k, 0, 0).q

\* str.startswith for a one-character prefix.
StartsWith(s, c) == Len(s) >= 1 /\ s[1] = c

\* s[1:]
Tail1(s) == SubSeq(s, 2, Len(s))

\* str.replace(a, b) for single characters.
Replace(s, a, b) == [i \in 1..Len(s) |-> IF s[i] = a THEN b ELSE s[i]]

\* The index of the first c in s, 0 when there is none.
RECURSIVE IndexFrom(_, _, _)
IndexFrom(s, c, i) ==
    IF i > Len(s) THEN 0
    ELSE IF s[i] = c THEN i
    ELSE IndexFrom(s, c, i + 1)

\* str.split(c): the parts between the occurrences of c, empty parts kept.
RECURSIVE Split(_, _)
Split(s, c) ==
    LET i == IndexFrom(s, c, 1)
    IN  IF i = 0 THEN <<s>>
        ELSE <<SubSeq(s, 1, i - 1)>> \o Split(SubSeq(s, i + 1, Len(s)), c)

Whitespace == {" ", "\t", "\n"}

\* str.strip()
RECURSIVE Strip(_)
Strip(s) ==
    IF s = <<>> THEN s
    ELSE IF s[1] \in Whitespace THEN Strip(Tail1(s))
    ELSE IF s[Len(s)] \in Whitespace THEN Strip(SubSeq(s, 1, Len(s) - 1))
    ELSE s

\* The index of the first whitespace character of s from i on, Len(s) + 1
\* when there is none.
RECURSIVE WordEnd(_, _)
WordEnd(s, i) ==
    IF i > Len(s) \/ s[i] \in Whitespace THEN i ELSE WordEnd(s, i + 1)

\* str.split(): the words between runs of whitespace, none of them empty.
RECURSIVE SplitWs(_)
SplitWs(s) ==
    IF s = <<>> THEN <<>>
    ELSE IF s[1] \in Whitespace THEN SplitWs(Tail1(s))
    ELSE LET e == WordEnd(s, 1)
         IN  <<SubSeq(s, 1, e - 1)>> \o SplitWs(SubSeq(s, e, Len(s)))

\* sep.join(words)
RECURSIVE Join(_, _)
Join(words, sep) ==
    IF words = <<>> THEN <<>>
    ELSE IF Len(words) = 1 THEN words[1]
    ELSE words[1] \o sep \o Join(Tail(words), sep)

RECURSIVE SumSeq(_)
SumSeq(q) == IF q = <<>> THEN 0 ELSE q[1] + SumSeq(Tail(q))

DigitVal(c) ==
    CASE c = "0" -> 0 [] c = "1" -> 1 [] c = "2" -> 2 [] c = "3" -> 3
      [] c = "4" -> 4 [] c = "5" -> 5 [] c = "6" -> 6 [] c = "7" -> 7
      [] c = "8" -> 8 [] c = "9" -> 9

RECURSIVE DigitsVal(_)
DigitsVal(s) ==
    IF s = <<>> THEN 0
    ELSE 10 * DigitsVal(SubSeq(s, 1, Len(s) - 1)) + DigitVal(s[Len(s)])

RECURSIVE Pow10(_)
Pow10(k) == IF k = 0 THEN 1 ELSE 10 * Pow10(k - 1)

AllDigits(s) == \A i \in 1..Len(s) : s[i] \in Digits

\* float(text) on text of signs, digits and '.': an optional sign, then
\* digits with at most one '.', at least one digit in all.  Anything else
\* raises ValueError (ok = FALSE).  Exponents, "inf", "nan", '_' and blanks
\* need characters the model's texts do not hold.
PyFloat(s) ==
    LET signed == Len(s) >= 1 /\ s[1] \in {"+", "-"}
        body   == IF signed THEN Tail1(s) ELSE s
        p      == IndexFrom(body, ".", 1)
        ip     == IF p = 0 THEN body ELSE SubSeq(body, 1, p - 1)
        fp     == IF p = 0 THEN <<>> ELSE SubSeq(body, p + 1, Len(body))
        good   == AllDigits(ip) /\ AllDigits(fp) /\ Len(ip) + Len(fp) >= 1
        mag    == DigitsVal(ip \o fp)
    IN  IF ~good THEN [ok |-> FALSE, val |-> Rat(0, 1)]
        ELSE [ok  |-> TRUE,
              val |-> Rat(IF signed /\ s[1] = "-" THEN -mag ELSE mag,
                          Pow10(Len(fp)))]

\* ---------------------------------------------------------------- MusicNote

\* MusicNote.NOTE_TO_SEMITONE; the key of a note symbol that is no key is
\* never looked up.
NOTE_TO_SEMITONE(c) ==
    CASE c = "1" -> 0 [] c = "2" -> 2 [] c = "3" -> 4 [] c = "4" -> 5
      [] c = "5" -> 7 [] c = "6" -> 9 [] c = "7" -> 11 [] c = "0" -> -240

NoteSymbols == {<<"0">>, <<"1">>, <<"2">>, <<"3">>, <<"4">>, <<"5">>, <<"6">>, <<"7">>}

\* MusicNote(base_freq, base_beat_duration)
MusicNote(f, b) == [base_freq |-> f, base_beat_duration |-> b]

ParseError(e) == [kind |-> "error", err |-> e]

\* A format check that only asks for a separator: text after a second '.'
\* is dropped instead of refused.
FormatOkAtLeastTwo(parts) == Len(parts) >= 2

\* len(parts) != 2 raises the format error.
FormatOk(parts) == Len(parts) = 2

\* An octave reading with the '-' marker raising the octave.
OctaveOffsetMinusUp(suffix) ==
    IF StartsWith(suffix, "0") THEN 0
    ELSE IF StartsWith(suffix, "-") THEN 1
    ELSE IF StartsWith(suffix, "+") THEN 1
    ELSE 0

\* The octave offset a suffix's first character selects.
OctaveOffset(suffix) ==
    IF StartsWith(suffix, "0") THEN 0
    ELSE IF StartsWith(suffix, "-") THEN -1
    ELSE IF StartsWith(suffix, "+") THEN 1
    ELSE 0

\* The denominator text of a suffix: the marker dropped, ':' read as '.'.
BeatDenomStr(suffix) ==
    IF StartsWith(suffix, "0") \/ StartsWith(suffix, "-") \/ StartsWith(suffix, "+")
    THEN Replace(Tail1(suffix), ":", ".")
    ELSE Replace(suffix, ":", ".")

\* MusicNote.parse: (freq, duration), or the ValueError it raises.
parse(self, note_str) ==
    LET parts == Split(note_str, ".")
    IN  IF ~FormatOk(parts) THEN ParseError("invalid_format")
        ELSE
        LET note_symbol == parts[1]
            suffix      == parts[2]
        IN  IF note_symbol \notin NoteSymbols THEN ParseError("invalid_note")
            ELSE
            LET octave_offset == OctaveOffset(suffix)
                beat_denom    == PyFloat(BeatDenomStr(suffix))
            IN  IF ~beat_denom.ok THEN ParseError("float_error")
                ELSE IF beat_denom.val.num <= 0 THEN ParseError("nonpositive_denom")
                ELSE
                [kind     |-> "ok",
                 freq     |-> [base      |-> self.base_freq,
                               semitones |-> octave_offset * 12
                                             + NOTE_TO_SEMITONE(note_symbol[1])],
                 duration |-> RatMul(self.base_beat_duration,
                                     Rat(4 * beat_denom.val.den, beat_denom.val.num))]

\* --------------------------------------------------------------- MusicPlayer

\* Harmonic amplitude lists, in hundredths: MusicPlayer's default [1.0],
\* save.py's 'piano' and 'flute', and a list of zeros.
DefaultAmplitudes == <<100>>

PianoAmplitudes == <<100, 50, 30, 20, 10, 5>>

FluteAmplitudes == <<100, 20, 10, 5>>

ZeroAmplitudes == <<0>>

Timbres == {DefaultAmplitudes, PianoAmplitudes, FluteAmplitudes, ZeroAmplitudes}

\* MusicPlayer(base_freq, base_beat_duration, sample_rate) with its
\* harmonic amplitudes; the stream is a variable of its own.
MusicPlayer(f, b, sr, amps) ==
    [note_parser |-> MusicNote(f, b), sample_rate |-> sr,
     harmonic_amplitudes |-> amps]

\* int(n / d): the quotient cut toward zero.
IntTrunc(n, d) == IF n >= 0 THEN n \div d ELSE -((-n) \div d)

\* int(k * n / d) for k >= 0.
IntTruncTimes(k, n, d) ==
    IF n >= 0 THEN FloorTimes(k, n, d) ELSE -FloorTimes(k, -n, d)

\* n / d rounded to the nearest integer, a half to the even one (round()).
RoundHalfEven(n, d) ==
    LET q == n \div d
        r == n % d
    IN  IF 2 * r < d THEN q
        ELSE IF 2 * r > d THEN q + 1
        ELSE IF q % 2 = 0 THEN q ELSE q + 1

\* A sample count rounded to the nearest integer instead of cut.
SampleCountRounded(sample_rate, seconds) ==
    RoundHalfEven(sample_rate * seconds.num, seconds.den)

\* int(sample_rate * seconds) for a rational number of seconds.
SampleCount(sample_rate, seconds) ==
    IntTruncTimes(sample_rate, seconds.num, seconds.den)

\* fade_samples = int(sample_rate * fade_ms / 1000) with fade_ms = 50.
FadeSamples(sample_rate) == IntTrunc(sample_rate * 50, 1000)

\* Sample n (from 0) of the sum of amplitude * sin(2 pi f (i+1) t): zero at
\* t = 0, and everywhere when the frequency is zero or every amplitude is;
\* otherwise not zero (a floating-point sine of a non-zero argument is not
\* zero, and for the sub-audio frequency of degree '0' every term of the sum
\* is positive).
CompositeSample(frequency, amps, n) ==
    IF n >= 1 /\ frequency.base.num # 0 /\ (\E i \in 1..Len(amps) : amps[i] # 0)
    THEN 1 ELSE 0

\* A sample times the fade-in ramp linspace(0, 1, fade)[n]: the ramp starts at 0.
FadeIn(x, n, fade) == IF n < fade /\ n = 0 THEN 0 ELSE x

\* A sample times the fade-out ramp linspace(1, 0, fade): it ends at 0 when
\* it has two points or more, and is the single point 1 otherwise.
FadeOut(x, n, count, fade) ==
    IF n >= count - fade /\ n = count - 1 /\ fade >= 2 THEN 0 ELSE x

ToneError(e) == [kind |-> "error", err |-> e]

\* MusicPlayer.generate_tone: the buffer, or the ValueError numpy raises (a
\* negative sample count, the maximum of an empty array, a fade ramp of no
\* points against a whole buffer).
generate_tone(self, frequency, duration) ==
    LET count == SampleCount(self.sample_rate, duration)
        fade  == FadeSamples(self.sample_rate)
        amps  == self.harmonic_amplitudes
        composite == [n \in 0..(count - 1) |-> CompositeSample(frequency, amps, n)]
        peak  == IF \E n \in 0..(count - 1) : composite[n] # 0 THEN 1 ELSE 0
    IN  IF count < 0 THEN ToneError("negative_count")
        ELSE IF count = 0 THEN ToneError("empty_max")
        ELSE IF fade < count /\ fade = 0 THEN ToneError("fade_broadcast")
        ELSE
        [kind       |-> "ok",
         samples    |-> [k \in 1..count |->
                           IF fade < count
                           THEN FadeOut(FadeIn(composite[k - 1], k - 1, fade),
                                        k - 1, count, fade)
                           ELSE composite[k - 1]],
         harmonics  |-> Len(amps),
         normalized |-> peak > 0,
         fade_samples |-> fade]

\* np.zeros(n)
Zeros(n) == [k \in 1..n |-> 0]

\* The silence play_note writes after a tone: int(sample_rate * 0.05) zeros.
SilenceSamples(sample_rate) == IntTrunc(sample_rate * 5, 100)

\* MusicPlayer.play_note after open_stream: the two buffers it writes, or
\* the error parse or generate_tone raises before any write.
play_note(self, note_str) ==
    LET r == parse(self.note_parser, note_str)
    IN  IF r.kind = "error" THEN r
        ELSE
        LET tone == generate_tone(self, r.freq, r.duration)
        IN  IF tone.kind = "error" THEN tone
            ELSE [kind   |-> "ok",
                  freq   |-> r.freq,
                  duration |-> r.duration,
                  tone   |-> tone,
                  writes |-> <<tone.samples, Zeros(SilenceSamples(self.sample_rate))>>]

\* ------------------------------------------------------------------- state

VARIABLES
    ut_note,      \* the note string handed to MusicNote.parse
    ut_parser,    \* the MusicNote it is handed to
    ut_stage,     \* "input", "parsed", "toned"
    ut_parsed,    \* what parse returned or raised
    ut_tone       \* the generate_tone call made with the parsed note

utVars == <<ut_note, ut_parser, ut_stage, ut_parsed, ut_tone>>

VARIABLES
    sv_file,      \* rcp_to_wav's input file: its lines
    sv_player,    \* sample_rate and harmonic_amplitudes, then the player built
    sv_pc,        \* "start", "header", "notes", "done", "raised", "idle"
    sv_lines,     \* lines: the stripped, non-blank lines
    sv_parser,    \* note_parser
    sv_pending,   \* the note strings the two loops have still to visit
    sv_audio,     \* audio_data: the frame count of each buffer appended
    sv_error,     \* the exception that ended the conversion
    output_file   \* the file at output_file

svVars == <<sv_file, sv_player, sv_pc, sv_lines, sv_parser, sv_pending,
            sv_audio, sv_error, output_file>>

VARIABLES
    is_playing,                 \* RCPPlayerUI.is_playing
    stream,                     \* player.stream: "none" or "open"
    note_parser,                \* player.note_parser: the tuning
    bpm_entry,                  \* the text of the three entry fields
    base_freq_entry,
    base_beat_duration_entry,
    note_text,                  \* the text of the score widget
    play_button,                \* "normal" or "disabled"
    pause_button,
    play_thread,                \* the number of the last thread started
    threads                     \* each playback thread's position and record

uiVars == <<is_playing, stream, note_parser, bpm_entry, base_freq_entry,
            base_beat_duration_entry, note_text, play_button, pause_button,
            play_thread, threads>>

vars == <<utVars, svVars, uiVars>>

\* ------------------------------------------- parser and synthesizer calls

\* Every text of at most MaxTokLen characters.
NoteStrings == UNION {[1..n -> Alphabet] : n \in 0..MaxTokLen}

\* 261.63 Hz, the default base frequency of MusicNote and of the UI.
DefaultBaseFreq == Rat(26163, 100)

\* The base beat durations of MusicNote's default (0.5 s) and of the UI (0.2 s).
BeatDurations == {Rat(1, 2), Rat(1, 5)}

\* Sample rates that keep a buffer short; the program's default is 44100.
SampleRates == {20, 30, 40}

NoCall == [kind |-> "none"]

\* ------------------------------------------------------------ RCPPlayerUI

ThreadIds == 1..MaxThreads

\* A thread play_music has not created.
NoThread ==
    [pc |-> "none", score |-> <<>>, notes |-> <<>>, processed_notes |-> <<>>,
     outcome |-> "none",
     started |-> <<>>, written |-> <<>>, cancelled |-> FALSE]

\* The entry fields after create_widgets: "388", "261.63" and "0.2".
DefaultBpmText == <<"3", "8", "8">>

DefaultBaseFreqText == <<"2", "6", "1", ".", "6", "3">>

DefaultBeatText == <<"0", ".", "2">>

\* Scores in the text widget: note strings of the default score with a line
\* break between two of them, a score with a malformed note string in the
\* middle, one with a run of eight characters and one with two note strings
\* run together.
Scores ==
    {<<"3", ".", "+", "1", " ", "2", ".", "+", "2", "\n", "3", ".", "+", "2">>,
     <<"1", ".", "0", "4", " ", "8", ".", "0", "4", " ", "2", ".", "0", "4">>,
     <<"1", ".", ":", "5", "1", ".", "0", "4">>,
     <<"1", ".", "0", "4", "2", ".", "0", "4">>}

\* The UI after __init__, with nothing playing and a score typed in.
UiStart ==
    /\ is_playing = FALSE
    /\ stream = "none"
    /\ note_parser = MusicNote(DefaultBaseFreq, Rat(1, 5))
    /\ bpm_entry = DefaultBpmText
    /\ base_freq_entry = DefaultBaseFreqText
    /\ base_beat_duration_entry = DefaultBeatText
    /\ play_button = "normal"
    /\ pause_button = "disabled"
    /\ play_thread = 0
    /\ threads = [t \in ThreadIds |-> NoThread]

\* The UI as the other specifications leave it.
UiIdle ==
    /\ UiStart
    /\ note_text = <<>>

\* ---------------------------------------------------- number formatting

\* The first k decimals of r / b as a number, and the remainder left.
RECURSIVE Decimals(_, _, _, _)
Decimals(r, b, k, sofar) ==
    IF k = 0 THEN [val |-> sofar, r |-> r]
    ELSE LET d == TimesDivMod(r, b, 10, 0, 0)
         IN  Decimals(d.r, b, k - 1, 10 * sofar + d.q)

RECURSIVE NatText(_)
NatText(n) ==
    IF n < 10 THEN <<CHOOSE c \in Digits : DigitVal(c) = n>>
    ELSE NatText(n \div 10) \o <<CHOOSE c \in Digits : DigitVal(c) = n % 10>>

RECURSIVE PadLeft(_, _)
PadLeft(text, width) ==
    IF Len(text) >= width THEN text ELSE PadLeft(<<"0">> \o text, width)

\* f"{x:.6f}" for a rational x >= 0: six decimals, rounded to the nearest,
\* a half to the even one.
FormatFixed6(x) ==
    LET ip   == x.num \div x.den
        d    == Decimals(x.num % x.den, x.den, 6, 0)
        up   == \/ d.r > x.den - d.r
                \/ (d.r = x.den - d.r /\ d.val % 2 = 1)
        frac == IF up THEN d.val + 1 ELSE d.val
        ip2  == IF frac = 1000000 THEN ip + 1 ELSE ip
        fr2  == IF frac = 1000000 THEN 0 ELSE frac
    IN  NatText(ip2) \o <<".">> \o PadLeft(NatText(fr2), 6)

\* 60.0 / x
SixtyOver(x) == RatMul(Rat(60, 1), Rat(x.den, x.num))

\* ----------------------------------------------------------- play_music

\* MusicPlayer.set_base_freq
set_base_freq(parser, base_freq) == [parser EXCEPT !.base_freq = base_freq]

\* A set_bpm that stores the BPM as the beat duration, the division left
\* out.
SetBpmUndivided(parser, bpm) == [parser EXCEPT !.base_beat_duration = bpm]

\* MusicPlayer.set_bpm
set_bpm(parser, bpm) == [parser EXCEPT !.base_beat_duration = SixtyOver(bpm)]

\* MusicPlayer.set_base_beat_duration
set_base_beat_duration(parser, duration) ==
    [parser EXCEPT !.base_beat_duration = duration]

\* A thread that has ended, the record of its session dropped.
Ended == [NoThread EXCEPT !.pc = "done"]

\* The tail of play_music: the flag is set, the buttons are switched and a
\* new thread is created and started.
StartPlayback ==
    /\ is_playing' = TRUE
    /\ play_button' = "disabled"
    /\ pause_button' = "normal"
    /\ play_thread' = play_thread + 1
    /\ threads' = [t \in ThreadIds |->
                     IF t = play_thread + 1 THEN [NoThread EXCEPT !.pc = "ready"]
                     ELSE IF threads[t].pc = "done" THEN Ended
                     ELSE threads[t]]

\* play_music returns early: nothing is started.
NoPlayback == UNCHANGED <<is_playing, play_button, pause_button, play_thread, threads>>

\* The play button's handler.  Entry values of zero (a division by zero)
\* are not among the texts of the model.
play_music ==
    /\ play_button = "normal"
    /\ play_thread < MaxThreads
    /\ LET bpm_text  == Strip(bpm_entry)
           base_freq == PyFloat(Strip(base_freq_entry))
           base_beat_duration_text == Strip(base_beat_duration_entry)
       IN  IF is_playing
           THEN /\ NoPlayback
                /\ UNCHANGED <<note_parser, bpm_entry, base_beat_duration_entry>>
           ELSE IF ~base_freq.ok
           THEN /\ NoPlayback
                /\ UNCHANGED <<note_parser, bpm_entry, base_beat_duration_entry>>
           ELSE IF bpm_text # <<>>
           THEN LET bpm == PyFloat(bpm_text)
                IN  IF ~bpm.ok
                    THEN /\ note_parser' = set_base_freq(note_parser, base_freq.val)
                         /\ NoPlayback
                         /\ UNCHANGED <<bpm_entry, base_beat_duration_entry>>
                    ELSE /\ note_parser' = set_bpm(set_base_freq(note_parser, base_freq.val),
                                                   bpm.val)
                         /\ base_beat_duration_entry' = FormatFixed6(SixtyOver(bpm.val))
                         /\ UNCHANGED bpm_entry
                         /\ StartPlayback
           ELSE IF base_beat_duration_text # <<>>
           THEN LET base_beat_duration == PyFloat(base_beat_duration_text)
                IN  IF ~base_beat_duration.ok
                    THEN /\ note_parser' = set_base_freq(note_parser, base_freq.val)
                         /\ NoPlayback
                         /\ UNCHANGED <<bpm_entry, base_beat_duration_entry>>
                    ELSE /\ note_parser' = set_base_beat_duration(
                                               set_base_freq(note_parser, base_freq.val),
                                               base_beat_duration.val)
                         /\ bpm_entry' = FormatFixed6(SixtyOver(base_beat_duration.val))
                         /\ UNCHANGED base_beat_duration_entry
                         /\ StartPlayback
           ELSE /\ note_parser' = set_base_freq(note_parser, base_freq.val)
                /\ NoPlayback
                /\ UNCHANGED <<bpm_entry, base_beat_duration_entry>>
    /\ UNCHANGED <<stream, base_freq_entry, note_text>>
    /\ UNCHANGED <<utVars, svVars>>

\* The pause button's handler.
pause_music ==
    /\ pause_button = "normal"
    /\ IF is_playing
       THEN /\ is_playing' = FALSE
            /\ play_button' = "normal"
            /\ pause_button' = "disabled"
            /\ threads' = [t \in ThreadIds |->
                             IF threads[t].pc \in {"ready", "loop", "writing"}
                             THEN [threads[t] EXCEPT !.cancelled = TRUE]
                             ELSE threads[t]]
       ELSE UNCHANGED <<is_playing, play_button, pause_button, threads>>
    /\ UNCHANGED <<stream, note_parser, bpm_entry, base_freq_entry,
                   base_beat_duration_entry, note_text, play_thread>>
    /\ UNCHANGED <<utVars, svVars>>

\* The user types into an entry field.  The entries are read by play_music
\* alone, which runs while the play button is enabled: a text typed while it
\* is disabled is typed here once it is enabled again.
CanEdit == play_button = "normal" /\ play_thread < MaxThreads

BpmTexts == {<<"1", "2", "0">>}

BaseFreqTexts == {<<"x">>}

BeatTexts == {<<>>}

EditBpm ==
    /\ CanEdit
    /\ \E text \in BpmTexts : bpm_entry' = text
    /\ UNCHANGED <<is_playing, stream, note_parser, base_freq_entry,
                   base_beat_duration_entry, note_text, play_button, pause_button,
                   play_thread, threads>>
    /\ UNCHANGED <<utVars, svVars>>

EditBaseFreq ==
    /\ CanEdit
    /\ \E text \in BaseFreqTexts : base_freq_entry' = text
    /\ UNCHANGED <<is_playing, stream, note_parser, bpm_entry,
                   base_beat_duration_entry, note_text, play_button, pause_button,
                   play_thread, threads>>
    /\ UNCHANGED <<utVars, svVars>>

EditBeatDuration ==
    /\ CanEdit
    /\ \E text \in BeatTexts : base_beat_duration_entry' = text
    /\ UNCHANGED <<is_playing, stream, note_parser, bpm_entry, base_freq_entry,
                   note_text, play_button, pause_button, play_thread, threads>>
    /\ UNCHANGED <<utVars, svVars>>

\* ------------------------------------------------------------- load_rcp

\* Files the load dialog offers, as their lines, the last one not ended by
\* a newline: an empty file, a file saved with a blank BPM field, and one
\* whose first line holds two fields.
RcpFiles ==
    {<<>>,
     << <<",", "2", "6", "1", ".", "6", "3", ",", "0", ".", "7">>,
        <<"1", ".", "0", "4", "2", ".", "0", "4">> >>,
     << <<"1", "2", "0", ",", "0", ".", "2", "5">>,
        <<"1", ".", "0", "4", " ", "8", ".", "0", "4", " ", "2", ".", "0", "4">> >>}

\* ''.join(lines[1:]), every line but the last ending in a newline.
JoinLines(lines) == Join(lines, <<"\n">>)

\* The text widget is read by a thread as it starts and the entries by
\* play_music: a file loaded at another moment is loaded here at the next
\* of these.
CanLoad == CanEdit \/ \E t \in ThreadIds : threads[t].pc = "ready"

\* The load button's handler, the file chosen in the dialog.
load_rcp ==
    /\ CanLoad
    /\ \E lines \in RcpFiles :
         IF lines = <<>>
         THEN UNCHANGED <<bpm_entry, base_freq_entry, base_beat_duration_entry,
                          note_text>>
         ELSE LET params == Split(Strip(lines[1]), ",")
              IN  /\ IF Len(params) = 3
                     THEN /\ bpm_entry' = params[1]
                          /\ base_freq_entry' = params[2]
                          /\ base_beat_duration_entry' = params[3]
                     ELSE UNCHANGED <<bpm_entry, base_freq_entry,
                                      base_beat_duration_entry>>
                  /\ note_text' = JoinLines(Tail(lines))
    /\ UNCHANGED <<is_playing, stream, note_parser, play_button, pause_button,
                   play_thread, threads>>
    /\ UNCHANGED <<utVars, svVars>>

\* --------------------------------------------------------- _play_sequence

\* re.sub(r'(\d\.[+-]?\d+)(?=\d\.)', r'\1 ', text): a blank goes in before
\* the last digit of a run of two digits or more that follows "d." or "d.+"
\* and is followed by '.'.
RECURSIVE DigitRunEnd(_, _)
DigitRunEnd(s, j) ==
    IF j <= Len(s) /\ s[j] \in Digits THEN DigitRunEnd(s, j + 1) ELSE j

\* Where a match that starts at i ends, 0 when none starts there.
MatchEnd(s, i) ==
    IF ~(i + 1 <= Len(s) /\ s[i] \in Digits /\ s[i + 1] = ".") THEN 0
    ELSE LET j == IF i + 2 <= Len(s) /\ s[i + 2] \in {"+", "-"} THEN i + 3 ELSE i + 2
             e == DigitRunEnd(s, j)
         IN  IF e - j >= 2 /\ e <= Len(s) /\ s[e] = "." THEN e - 2 ELSE 0

RECURSIVE SeparateNotes(_, _)
SeparateNotes(s, i) ==
    IF i > Len(s) THEN <<>>
    ELSE LET m == MatchEnd(s, i)
         IN  IF m # 0 THEN SubSeq(s, i, m) \o <<" ">> \o SeparateNotes(s, m + 1)
             ELSE <<s[i]>> \o SeparateNotes(s, i + 1)

\* note_text.get(1.0, tk.END): the text and the newline the widget adds.
WidgetText(text) == text \o <<"\n">>

\* notes = notes_text.strip().split(' ')
SequenceNotes(text) == Split(Strip(SeparateNotes(WidgetText(text), 1)), " ")

\* processed_notes: line.split(), a word of eight characters cut in two.
RECURSIVE CutEights(_)
CutEights(words) ==
    IF words = <<>> THEN <<>>
    ELSE IF Len(words[1]) = 8
    THEN <<SubSeq(words[1], 1, 4), SubSeq(words[1], 5, 8)>> \o CutEights(Tail(words))
    ELSE <<words[1]>> \o CutEights(Tail(words))

ProcessedNotes(line) == CutEights(SplitWs(line))

\* The UI's player: the tuning of the moment and the piano amplitudes the
\* UI sets (ten of them, none zero).
UiAmplitudes == <<100, 70, 50, 30, 20, 15, 10, 8, 5, 3>>

UiPlayer ==
    [note_parser |-> note_parser, sample_rate |-> UiSampleRate,
     harmonic_amplitudes |-> UiAmplitudes]

Alive(t) == threads[t].pc \in {"ready", "loop", "writing"}

\* The thread starts to run: it reads the score and splits it at blanks.
ThreadStart(t) ==
    /\ threads[t].pc = "ready"
    /\ threads' = [threads EXCEPT ![t].pc = "loop",
                                  ![t].score = note_text,
                                  ![t].notes = SequenceNotes(note_text)]
    /\ UNCHANGED <<is_playing, stream, note_parser, bpm_entry, base_freq_entry,
                   base_beat_duration_entry, note_text, play_button, pause_button,
                   play_thread>>
    /\ UNCHANGED <<utVars, svVars>>

\* The finally clause: the flag is cleared and the buttons are reset.
Finally(t, thr, how) ==
    /\ threads' = [threads EXCEPT ![t] = [thr EXCEPT !.pc = "done", !.outcome = how,
                                                    !.notes = <<>>,
                                                    !.processed_notes = <<>>]]
    /\ is_playing' = FALSE
    /\ play_button' = "normal"
    /\ pause_button' = "disabled"

\* play_note(note) from the thread: open_stream, then parse and
\* generate_tone, which may raise, then the two writes, which block.
BeginNote(t, thr, note) ==
    /\ stream' = "open"
    /\ IF play_note(UiPlayer, note).kind = "error"
       THEN Finally(t, thr, "error")
       ELSE /\ threads' = [threads EXCEPT ![t] =
                             [thr EXCEPT !.pc = "writing",
                                         !.started = Append(thr.started, note)]]
            /\ UNCHANGED <<is_playing, play_button, pause_button>>

\* The head of the outer loop: its end, the test of the flag, and the
\* split of the next line, whose first note string is played at once.
ThreadLoop(t) ==
    /\ threads[t].pc = "loop"
    /\ IF threads[t].notes = <<>>
       THEN Finally(t, threads[t], "complete") /\ UNCHANGED stream
       ELSE IF ~is_playing
       THEN Finally(t, threads[t], "break") /\ UNCHANGED stream
       ELSE LET thr == [threads[t] EXCEPT
                          !.notes = Tail(threads[t].notes),
                          !.processed_notes = ProcessedNotes(threads[t].notes[1])]
            IN  IF thr.processed_notes = <<>>
                THEN /\ threads' = [threads EXCEPT ![t] = thr]
                     /\ UNCHANGED <<is_playing, play_button, pause_button, stream>>
                ELSE BeginNote(t, thr, thr.processed_notes[1])
    /\ UNCHANGED <<note_parser, bpm_entry, base_freq_entry,
                   base_beat_duration_entry, note_text, play_thread>>
    /\ UNCHANGED <<utVars, svVars>>

\* The writes of a note return; the inner loop goes on to the next note
\* string of the line, or the thread is back at the head of the outer loop.
ThreadWrite(t) ==
    /\ threads[t].pc = "writing"
    /\ LET thr == [threads[t] EXCEPT
                     !.written = Append(threads[t].written,
                                        threads[t].processed_notes[1]),
                     !.processed_notes = Tail(threads[t].processed_notes)]
       IN  IF thr.processed_notes = <<>>
           THEN /\ threads' = [threads EXCEPT ![t] = [thr EXCEPT !.pc = "loop"]]
                /\ UNCHANGED <<is_playing, play_button, pause_button, stream>>
           ELSE BeginNote(t, thr, thr.processed_notes[1])
    /\ UNCHANGED <<note_parser, bpm_entry, base_freq_entry,
                   base_beat_duration_entry, note_text, play_thread>>
    /\ UNCHANGED <<utVars, svVars>>


UtIdle ==
    /\ ut_note = <<>>
    /\ ut_parser = MusicNote(DefaultBaseFreq, Rat(1, 2))
    /\ ut_stage = "idle"
    /\ ut_parsed = NoCall
    /\ ut_tone = NoCall

\* No conversion is under way.
SvIdle ==
    /\ sv_file = <<>>
    /\ sv_player = MusicPlayer(DefaultBaseFreq, Rat(1, 2), 20, DefaultAmplitudes)
    /\ sv_pc = "idle"
    /\ sv_lines = <<>>
    /\ sv_parser = MusicNote(DefaultBaseFreq, Rat(1, 2))
    /\ sv_pending = <<>>
    /\ sv_audio = <<>>
    /\ sv_error = NoCall
    /\ output_file = [state |-> "absent", frames |-> 0]

InitParse ==
    /\ SvIdle
    /\ UiIdle
    /\ ut_note \in NoteStrings
    /\ ut_parser \in {MusicNote(DefaultBaseFreq, b) : b \in BeatDurations}
    /\ ut_stage = "input"
    /\ ut_parsed = NoCall
    /\ ut_tone = NoCall

\* note_parser.parse(note_str)
CallParse ==
    /\ ut_stage = "input"
    /\ ut_parsed' = parse(ut_parser, ut_note)
    /\ ut_stage' = "parsed"
    /\ UNCHANGED <<ut_note, ut_parser, ut_tone>>
    /\ UNCHANGED svVars
    /\ UNCHANGED uiVars

\* player.generate_tone(freq, duration) with the pair parse returned.
CallGenerateTone ==
    /\ ut_stage = "parsed"
    /\ ut_parsed.kind = "ok"
    /\ \E sr \in SampleRates, amps \in Timbres :
         LET player == MusicPlayer(ut_parser.base_freq, ut_parser.base_beat_duration,
                                   sr, amps)
         IN  ut_tone' = [kind |-> "call", sample_rate |-> sr, amplitudes |-> amps,
                         ret |-> generate_tone(player, ut_parsed.freq, ut_parsed.duration)]
    /\ ut_stage' = "toned"
    /\ UNCHANGED <<ut_note, ut_parser, ut_parsed>>
    /\ UNCHANGED svVars
    /\ UNCHANGED uiVars

NextParse == CallParse \/ CallGenerateTone

SpecParse == InitParse /\ [][NextParse]_vars

\* ------------------------------------------------------------ the UI

Init ==
    /\ UtIdle
    /\ SvIdle
    /\ UiStart
    /\ note_text \in Scores

Next ==
    \/ play_music
    \/ pause_music
    \/ EditBpm
    \/ EditBaseFreq
    \/ EditBeatDuration
    \/ load_rcp
    \/ \E t \in ThreadIds : ThreadStart(t)
    \/ \E t \in ThreadIds : ThreadLoop(t)
    \/ \E t \in ThreadIds : ThreadWrite(t)

Spec == Init /\ [][Next]_vars

\* ------------------------------------------------------------ C1: rests

AllZero(buf) == \A k \in 1..Len(buf) : buf[k] = 0

\* The note under test is a rest that parsed and whose tone was generated.
RestToned ==
    /\ ut_stage = "toned"
    /\ Len(ut_note) >= 1 /\ ut_note[1] = "0"
    /\ ut_tone.ret.kind = "ok"

\* C1: for every rest (degree '0', any octave marker, any positive
\* denominator) and every timbre, the buffer generate_tone returns, which
\* play_note writes and rcp_to_wav stores, is pure silence: every sample is
\* 0 and no peak normalization was applied to it.
C1_RestIsSilent ==
    RestToned => AllZero(ut_tone.ret.samples) /\ ~ut_tone.ret.normalized

\* ------------------------------------------------- C7: malformed note strings

DotCount(s) == Cardinality({i \in 1..Len(s) : s[i] = "."})

DegreeChars == {"0", "1", "2", "3", "4", "5", "6", "7"}

\* With exactly one '.', the text before it is one of '0'..'7'.
DegreeRuleHolds(s) == IndexFrom(s, ".", 1) = 2 /\ s[1] \in DegreeChars

\* The text after the '.', an octave marker at its head removed and ':'
\* written as '.'.
DenominatorText(s) ==
    LET after == SubSeq(s, IndexFrom(s, ".", 1) + 1, Len(s))
        rest  == IF Len(after) >= 1 /\ after[1] \in {"0", "+", "-"}
                 THEN SubSeq(after, 2, Len(after)) ELSE after
    IN  [i \in 1..Len(rest) |-> IF rest[i] = ":" THEN "." ELSE rest[i]]

\* The error kind of the first rule a note string breaks, "none" when it
\* breaks none.
BrokenRule(s) ==
    IF DotCount(s) # 1 THEN "format"
    ELSE IF ~DegreeRuleHolds(s) THEN "degree"
    ELSE IF ~PyFloat(DenominatorText(s)).ok THEN "duration"
    ELSE IF PyFloat(DenominatorText(s)).val.num <= 0 THEN "duration"
    ELSE "none"

ErrorKind(r) ==
    IF r.kind = "ok" THEN "none"
    ELSE IF r.err = "invalid_format" THEN "format"
    ELSE IF r.err = "invalid_note" THEN "degree"
    ELSE "duration"

\* C7 as stated: every malformed note string is rejected with the error of
\* the rule it breaks, and "1.." is rejected with the invalid-duration error.
C7_AsStated ==
    ut_stage = "parsed" =>
        /\ (ut_note = <<"1", "-", "0", "4">> => ErrorKind(ut_parsed) = "format")
        /\ (ut_note = <<"8", ".", "0", "4">> => ErrorKind(ut_parsed) = "degree")
        /\ (ut_note = <<"1", ".", "-">> => ErrorKind(ut_parsed) = "duration")
        /\ (ut_note = <<"1", ".", ".">> => ErrorKind(ut_parsed) = "duration")

\* C7, amended: parse rejects a note string without exactly one '.' with the
\* format error ("1.." has two, so it is a format error), one whose degree is
\* not '0'..'7' with the invalid-degree error, and one whose denominator text
\* float() refuses or reads as a value <= 0 with the ValueError of an invalid
\* duration; it returns a result only for a note string that breaks no rule.
C7_RejectsByRule ==
    ut_stage = "parsed" => ErrorKind(ut_parsed) = BrokenRule(ut_note)

\* "1.." has been parsed and refused for its format.
C7_Witness ==
    /\ ut_stage = "parsed"
    /\ ut_note = <<"1", ".", ".">>
    /\ ut_parsed.kind = "error" /\ ut_parsed.err = "invalid_format"

\* ----------------------------------------------------- C8: semitone shift

SemitoneTable ==
    ("1" :> 0) @@ ("2" :> 2) @@ ("3" :> 4) @@ ("4" :> 5) @@ ("5" :> 7)
      @@ ("6" :> 9) @@ ("7" :> 11)

\* The octave the character after the '.' stands for.
MarkerOctave(s) ==
    IF Len(s) >= 3 /\ s[3] = "+" THEN 1
    ELSE IF Len(s) >= 3 /\ s[3] = "-" THEN -1
    ELSE 0

\* The note string with its octave marker replaced by '0'.
WithMarkerZero(s) == [i \in 1..Len(s) |-> IF i = 3 THEN "0" ELSE s[i]]

\* A note of degree 1..7 has parsed.
PitchedParsed ==
    /\ ut_stage = "parsed"
    /\ ut_parsed.kind = "ok"
    /\ ut_note[1] \in DOMAIN SemitoneTable

\* C8: for every degree 1..7 and positive denominator the semitone shift is
\* octaveOffset * 12 + table[degree], with '+' one octave up, '-' one octave
\* down and '0' or no marker none; a '+' token is 12 semitones above and a
\* '-' token 12 below the token with marker '0', with the same duration.
C8_SemitoneShift ==
    PitchedParsed =>
        /\ ut_parsed.freq.semitones
             = MarkerOctave(ut_note) * 12 + SemitoneTable[ut_note[1]]
        /\ ut_parsed.freq.base = ut_parser.base_freq
        /\ MarkerOctave(ut_note) # 0 =>
             LET mid == parse(ut_parser, WithMarkerZero(ut_note))
             IN  /\ mid.kind = "ok"
                 /\ ut_parsed.freq.semitones
                      = mid.freq.semitones + 12 * MarkerOctave(ut_note)
                 /\ ut_parsed.duration = mid.duration

\* "3.-4" has parsed, eight semitones below the base frequency.
C8_Witness ==
    /\ PitchedParsed
    /\ ut_note = <<"3", ".", "-", "4">>
    /\ ut_parsed.freq.semitones = -8

\* ------------------------------------------------------ C9: sample counts

ToneMade == ut_stage = "toned" /\ ut_tone.ret.kind = "ok"

\* C9 as stated: the buffer has round(sampleRate * durationSeconds) samples
\* and the fade round(sampleRate * 0.05).
C9_AsStated ==
    ToneMade =>
        /\ Len(ut_tone.ret.samples)
             = RoundHalfEven(ut_tone.sample_rate * ut_parsed.duration.num,
                             ut_parsed.duration.den)
        /\ ut_tone.ret.fade_samples = RoundHalfEven(ut_tone.sample_rate * 5, 100)

\* C9, amended: the buffer has int(sampleRate * durationSeconds) samples and
\* the fade int(sampleRate * 0.05), the products cut to the integer below,
\* not rounded to the nearest: n <= sampleRate * duration < n + 1.
C9_Truncated ==
    ToneMade =>
        LET n == Len(ut_tone.ret.samples)
            f == ut_tone.ret.fade_samples
            x == ut_tone.sample_rate * ut_parsed.duration.num
        IN  /\ n * ut_parsed.duration.den <= x
            /\ x < (n + 1) * ut_parsed.duration.den
            /\ f * 100 <= ut_tone.sample_rate * 5
            /\ ut_tone.sample_rate * 5 < (f + 1) * 100

\* A tone whose exact length lies more than half a sample above its count.
C9_Witness ==
    /\ ToneMade
    /\ 2 * ((ut_tone.sample_rate * ut_parsed.duration.num) % ut_parsed.duration.den)
         > ut_parsed.duration.den

\* ------------------------------------------------------------- rcp_to_wav

\* Header lines: "388,261.63,0.2", one with two fields, one with four, one
\* with a field that is no number and one with an empty field.
HeaderLines ==
    {<<"3", "8", "8", ",", "2", "6", "1", ".", "6", "3", ",", "0", ".", "2">>,
     <<"3", "8", "8", ",", "0", ".", "2">>,
     <<"1", ",", "2", ",", "3", ",", "4">>,
     <<"3", "8", "8", ",", "x", ",", "0", ".", "2">>,
     <<"3", "8", "8", ",", ",", "0", ".", "2">>}

\* Note strings of a score file: two notes, a rest, and one that breaks
\* each rule of the grammar.
SaveNotes ==
    {<<"1", ".", "0", "4">>, <<"3", ".", "+", "2">>, <<"0", ".", "0", "2">>,
     <<"8", ".", "0", "4">>, <<"1", ".", "-">>, <<"1", "-", "0", "4">>}

RECURSIVE FlatSplit(_)
\* The note strings of the lines, in the order the two loops visit them.
FlatSplit(lines) ==
    IF lines = <<>> THEN <<>>
    ELSE SplitWs(lines[1]) \o FlatSplit(Tail(lines))

\* Score files: no line at all, blank lines only, and a header followed by
\* a blank line and the note strings, on one line or on a line each.
ScoreBodies == UNION {[1..n -> SaveNotes] : n \in 0..MaxSaveNotes}

ScoreFiles ==
    {<<>>, << <<" ">>, <<>> >>}
      \cup {<<h, <<" ", " ">>, Join(b, <<" ">>)>> : h \in HeaderLines, b \in ScoreBodies}
      \cup {<<h>> \o b : h \in HeaderLines, b \in ScoreBodies}

NoFile == [state |-> "absent", frames |-> 0]

\* The output file with a variant of the conversion that opens it for
\* writing before the notes are parsed.
OutputOpenedEarly(stage, out, audio) ==
    IF stage = "header" THEN [state |-> "created", frames |-> 0]
    ELSE IF stage = "write" THEN [state |-> "written", frames |-> SumSeq(audio)]
    ELSE out

\* The output file after a stage of the conversion: wave.open and
\* writeframes run once, after the last note.
OutputAfter(stage, out, audio) ==
    IF stage = "write" THEN [state |-> "written", frames |-> SumSeq(audio)]
    ELSE out

InitSave ==
    /\ UtIdle
    /\ UiIdle
    /\ sv_file \in ScoreFiles
    /\ sv_player \in {MusicPlayer(DefaultBaseFreq, Rat(1, 2), sr, amps) :
                        sr \in {20, 40}, amps \in {DefaultAmplitudes, PianoAmplitudes}}
    /\ sv_pc = "start"
    /\ sv_lines = <<>>
    /\ sv_parser = MusicNote(DefaultBaseFreq, Rat(1, 2))
    /\ sv_pending = <<>>
    /\ sv_audio = <<>>
    /\ sv_error = NoCall
    /\ output_file = NoFile

SaveRaise(e) ==
    /\ sv_pc' = "raised"
    /\ sv_error' = e

\* lines = [line.strip() for line in f if line.strip()]
StrippedLines(file) ==
    LET keep == {i \in 1..Len(file) : Strip(file[i]) # <<>>}
        RECURSIVE Pick(_)
        Pick(i) == IF i > Len(file) THEN <<>>
                   ELSE IF i \in keep THEN <<Strip(file[i])>> \o Pick(i + 1)
                   ELSE Pick(i + 1)
    IN  Pick(1)

\* The file is read; an empty score raises.
SaveRead ==
    /\ sv_pc = "start"
    /\ sv_lines' = StrippedLines(sv_file)
    /\ IF StrippedLines(sv_file) = <<>>
       THEN SaveRaise([kind |-> "empty_file"])
       ELSE sv_pc' = "header" /\ UNCHANGED sv_error
    /\ output_file' = OutputAfter("read", output_file, sv_audio)
    /\ UNCHANGED <<sv_file, sv_player, sv_parser, sv_pending, sv_audio>>
    /\ UNCHANGED utVars
    /\ UNCHANGED uiVars

\* The first line is split into bpm, base_freq and base_beat_duration, and
\* the parser and the player are built.
SaveHeader ==
    /\ sv_pc = "header"
    /\ LET params == Split(sv_lines[1], ",")
       IN  IF Len(params) # 3
           THEN /\ SaveRaise([kind |-> "header_fields"])
                /\ UNCHANGED <<sv_parser, sv_player, sv_pending>>
           ELSE IF \E i \in 1..3 : ~PyFloat(params[i]).ok
           THEN /\ SaveRaise([kind |-> "header_float"])
                /\ UNCHANGED <<sv_parser, sv_player, sv_pending>>
           ELSE /\ sv_parser' = MusicNote(PyFloat(params[2]).val, PyFloat(params[3]).val)
                /\ sv_player' = MusicPlayer(PyFloat(params[2]).val, PyFloat(params[3]).val,
                                            sv_player.sample_rate,
                                            sv_player.harmonic_amplitudes)
                /\ sv_pending' = FlatSplit(Tail(sv_lines))
                /\ sv_pc' = "notes"
                /\ UNCHANGED sv_error
    /\ output_file' = OutputAfter("header", output_file, sv_audio)
    /\ UNCHANGED <<sv_file, sv_lines, sv_audio>>
    /\ UNCHANGED utVars
    /\ UNCHANGED uiVars

\* One pass of the inner loop: the note is parsed, its tone generated and
\* appended as 16-bit frames; an error of either ends the conversion.
SaveNote ==
    /\ sv_pc = "notes"
    /\ sv_pending # <<>>
    /\ LET r == parse(sv_parser, sv_pending[1])
       IN  IF r.kind = "error"
           THEN /\ SaveRaise([kind |-> "parse", err |-> r.err, note |-> sv_pending[1]])
                /\ UNCHANGED <<sv_audio, sv_pending>>
           ELSE LET tone == generate_tone(sv_player, r.freq, r.duration)
                IN  IF tone.kind = "error"
                    THEN /\ SaveRaise([kind |-> "tone", err |-> tone.err,
                                       note |-> sv_pending[1]])
                         /\ UNCHANGED <<sv_audio, sv_pending>>
                    ELSE /\ sv_audio' = Append(sv_audio, Len(tone.samples))
                         /\ sv_pending' = Tail(sv_pending)
                         /\ UNCHANGED <<sv_pc, sv_error>>
    /\ output_file' = OutputAfter("note", output_file, sv_audio)
    /\ UNCHANGED <<sv_file, sv_lines, sv_parser, sv_player>>
    /\ UNCHANGED utVars
    /\ UNCHANGED uiVars

\* After the last note the WAV file is opened and audio_data written.
SaveWrite ==
    /\ sv_pc = "notes"
    /\ sv_pending = <<>>
    /\ output_file' = OutputAfter("write", output_file, sv_audio)
    /\ sv_pc' = "done"
    /\ UNCHANGED <<sv_file, sv_lines, sv_parser, sv_player, sv_pending, sv_audio, sv_error>>
    /\ UNCHANGED utVars
    /\ UNCHANGED uiVars

NextSave == SaveRead \/ SaveHeader \/ SaveNote \/ SaveWrite

SpecSave == InitSave /\ [][NextSave]_vars

\* --------------------------------------------- C2: a gap after every tone

\* The frames play_note writes to the live stream for the note strings, in
\* order: each tone followed by its 50 ms of silence.
RECURSIVE LiveFrames(_, _)
LiveFrames(player, notes) ==
    IF notes = <<>> THEN <<>>
    ELSE LET w == play_note(player, notes[1]).writes
         IN  <<Len(w[1]), Len(w[2])>> \o LiveFrames(player, Tail(notes))

\* C2: for a score of N valid note strings the audio-file payload holds, in
\* order, each note's tone followed by int(sampleRate * 0.05) frames of
\* silence, the sequence play_note writes to the live stream: its frame
\* count is the sum of the N tone counts plus N gaps.
C2_GapAfterEveryTone ==
    sv_pc = "done" =>
        /\ output_file.frames
             = SumSeq(LiveFrames(sv_player, FlatSplit(Tail(sv_lines))))
        /\ Len(sv_audio) = 2 * Len(FlatSplit(Tail(sv_lines)))

\* ------------------------------------------------------- C5: fail-fast

NonBlank(line) == \E i \in 1..Len(line) : line[i] \notin Whitespace

\* The first line of the file that is not blank.
FirstContentLine(file) ==
    file[CHOOSE i \in 1..Len(file) :
           NonBlank(file[i]) /\ \A j \in 1..(i - 1) : ~NonBlank(file[j])]

CommaCount(line) == Cardinality({i \in 1..Len(line) : line[i] = ","})

\* The input has a fault of the first two kinds: no content line, or a
\* header that does not hold exactly three numbers.
HeaderFault(file) ==
    \/ \A i \in 1..Len(file) : ~NonBlank(file[i])
    \/ CommaCount(FirstContentLine(file)) # 2
    \/ \E f \in 1..3 : ~PyFloat(Split(Strip(FirstContentLine(file)), ",")[f]).ok

\* C5: rcp_to_wav is fail-fast with no partial output.  The output file is
\* created only by a conversion that ran to its end; a conversion of an
\* input without content, with a header that is not three numbers or with a
\* malformed note string never runs to its end; and a conversion ended by a
\* note string is ended by the first malformed one, every note string before
\* it having been rendered.
C5_FailFast ==
    /\ output_file.state # "absent" => sv_pc = "done"
    /\ sv_pc = "done" =>
         /\ ~HeaderFault(sv_file)
         /\ \A k \in 1..Len(FlatSplit(Tail(sv_lines))) :
              BrokenRule(FlatSplit(Tail(sv_lines))[k]) = "none"
    /\ sv_pc \in {"header", "notes"} => ~(\A i \in 1..Len(sv_file) : ~NonBlank(sv_file[i]))
    /\ sv_pc = "notes" => ~HeaderFault(sv_file)
    /\ sv_pc = "notes" =>
         \A k \in 1..Len(sv_audio) : BrokenRule(FlatSplit(Tail(sv_lines))[k]) = "none"
    /\ (sv_pc = "raised" /\ sv_error.kind = "parse") =>
         /\ BrokenRule(sv_error.note) # "none"
         /\ sv_error.note = FlatSplit(Tail(sv_lines))[Len(sv_audio) + 1]
         /\ \A k \in 1..Len(sv_audio) : BrokenRule(FlatSplit(Tail(sv_lines))[k]) = "none"

\* A conversion that had rendered two notes was ended by the third, and no
\* file was written.
C5_Witness ==
    /\ sv_pc = "raised"
    /\ sv_error.kind = "parse"
    /\ Len(sv_audio) = 2
    /\ output_file.state = "absent"

\* ------------------------------------------------------------ C3: the flag

\* C3: the flag is tested between every two consecutive notes, so that no
\* thread starts a note in a step taken while is_playing is FALSE.
C3_NoNoteWhileFlagCleared ==
    [][~is_playing =>
         \A t \in ThreadIds : threads'[t].started = threads[t].started]_vars

\* ------------------------------------------------------------ C4: the stream

SessionOver ==
    /\ \E t \in ThreadIds : threads[t].pc = "done"
    /\ \A t \in ThreadIds : ~Alive(t)

\* C4: when a playback session is over, by completion, by cancellation or
\* by an error, and no thread is left, the stream has been closed.
C4_StreamClosedAfterSession == SessionOver => stream = "none"

\* ------------------------------------------------------------ C6: recovery

RECURSIVE AllProcessedNotes(_)
AllProcessedNotes(notes) ==
    IF notes = <<>> THEN <<>>
    ELSE ProcessedNotes(notes[1]) \o AllProcessedNotes(Tail(notes))

IsValidNote(note) == BrokenRule(note) = "none"

\* C6: a malformed note string is skipped.  A thread that ended otherwise
\* than by the test of the flag has played every valid note string of the
\* score, in the score's order.
C6_SkipsMalformed ==
    \A t \in ThreadIds :
        (threads[t].pc = "done" /\ threads[t].outcome # "break") =>
            threads[t].written =
                SelectSeq(AllProcessedNotes(SequenceNotes(threads[t].score)),
                          IsValidNote)

\* ------------------------------------------------------------ C10: the tuning

\* C10: the tuning is read-only during a render.  No step taken while a
\* thread is writing a note changes base_freq or base_beat_duration.
C10_TuningReadOnly ==
    [][(\E t \in ThreadIds : threads[t].pc = "writing") =>
         note_parser' = note_parser]_vars

\* ------------------------------------------------------------ C11: BPM and beat

\* Two rationals are the same number.
SameValue(x, y) == Norm(x) = Norm(y)

\* The text is a numeral with six decimals that is x cut or rounded up at
\* the sixth decimal.
ShowsToSix(text, x) ==
    LET f    == PyFloat(text)
        cut  == (x.num \div x.den) * 1000000
                  + Decimals(x.num % x.den, x.den, 6, 0).val
    IN  /\ f.ok
        /\ f.val.den = 1000000
        /\ f.val.num \in {cut, cut + 1}

\* The value an entry shows.
Shown(text) == PyFloat(Strip(text)).val

\* C11 as stated: whenever play_music starts a playback, both fields show
\* numbers, the player's beat duration is the duration shown and is
\* 60 / the BPM shown, and the field that was authoritative is unchanged
\* (the BPM field when it was not empty, the duration field otherwise).
C11_AsStated ==
    [][play_thread' = play_thread + 1 =>
         /\ PyFloat(Strip(bpm_entry')).ok
         /\ PyFloat(Strip(base_beat_duration_entry')).ok
         /\ SameValue(note_parser'.base_beat_duration, Shown(base_beat_duration_entry'))
         /\ SameValue(note_parser'.base_beat_duration, SixtyOver(Shown(bpm_entry')))
         /\ IF bpm_entry # <<>>
            THEN bpm_entry' = bpm_entry
            ELSE base_beat_duration_entry' = base_beat_duration_entry]_vars

\* C11, amended: whenever play_music starts a playback, one field was
\* authoritative and is unchanged, the BPM field when it was not blank and
\* the duration field otherwise; the player's beat duration is exactly
\* 60 / BPM in the first case and exactly the duration in the second; and
\* the other field shows the recomputed value to six decimals only.
C11_OneAuthority ==
    [][play_thread' = play_thread + 1 =>
         IF Strip(bpm_entry) # <<>>
         THEN /\ bpm_entry' = bpm_entry
              /\ SameValue(note_parser'.base_beat_duration,
                           SixtyOver(Shown(bpm_entry')))
              /\ ShowsToSix(base_beat_duration_entry', note_parser'.base_beat_duration)
         ELSE /\ base_beat_duration_entry' = base_beat_duration_entry
              /\ SameValue(note_parser'.base_beat_duration,
                           Shown(base_beat_duration_entry'))
              /\ ShowsToSix(bpm_entry', SixtyOver(note_parser'.base_beat_duration))]_vars

\* A playback was started from a loaded file with a blank BPM field: the
\* duration 0.7 is the player's and the BPM field shows 85.714286.
C11_Witness ==
    /\ is_playing
    /\ play_thread >= 1
    /\ SameValue(note_parser.base_beat_duration, Rat(7, 10))
    /\ bpm_entry = <<"8", "5", ".", "7", "1", "4", "2", "8", "6">>
    /\ base_beat_duration_entry = <<"0", ".", "7">>

\* ------------------------------------------------------------ C12: one thread

\* The threads that are writing a note to the stream.
Writing == {t \in ThreadIds : threads[t].pc = "writing"}

\* C12: at most one playback thread is writing notes to the shared stream
\* at any time.
C12_OneWriter == Cardinality(Writing) <= 1

====
